---- MODULE Spec2Model ----
(***************************************************************************)
(* Outstanding-debt reconstruction of Alcb4/stealthpriv:                   *)
(* getOutstandingDebtFromBlockSearch and its helpers.                      *)
(*                                                                         *)
(* Numbers.  The code keeps the ledger in bigint base units (wei) and      *)
(* reports JS numbers (IEEE doubles) in whole units (MAV).  TLC integers   *)
(* are 32 bits wide, so the two magnitudes that matter are scaled down     *)
(* together: UNIT stands for 10^18 and MantBits for the 53-bit significand *)
(* of a double.  The scaling keeps the relation the code lives with:       *)
(* UNIT is itself representable, and UNIT > 2^MantBits, so Number(debt)    *)
(* rounds for every balance that passes the dust filter.  A reported       *)
(* number x is represented by the integer x * UNIT (UNIT is a power of     *)
(* two, so the division by 1e18 is exact in the scaled arithmetic), and a  *)
(* percentage by its hundredths.                                           *)
(***************************************************************************)
EXTENDS Integers, Sequences, FiniteSets, TLC

VARIABLES
    pc,               \* position of the run inside getOutstandingDebtFromBlockSearch
    discovered,       \* what searchTransactionsByContractAndMethods returned
    cur,              \* the candidate transaction of the current loop iteration
    outstandingDebts, \* Map<wallet, bigint>, in insertion order
    lendersInMAV,     \* the converted lender list built before the liquidity read
    totalLent,        \* bigint sum over the filtered lenders
    liquiditySource,  \* which branch getLaunchPoolBalance took
    result,           \* the TopLendersResult returned
    floorLog,         \* wallet named by the "Flooring negative balance" line of the
                      \* latest loop iteration (0: it logged none)
    resolution,       \* whether the inputs of the latest finished loop iteration
                      \* admitted an amount; while an iteration runs, whether
                      \* its receipt could not be fetched
    foldInput,        \* a sequence of resolved deltas (aggregation in isolation)
    foldPos,          \* how many deltas of foldInput have been folded
    rIn,              \* one candidate with its upstream answers (resolver in isolation)
    rOut,             \* what the loop body made of rIn
    dpc,              \* position of searchTransactionsByContractAndMethods
    days,             \* its lookback argument
    page,             \* page of the index being requested
    retries,          \* failed attempts counted on this page
    attempts,         \* requests sent for this page
    waits,            \* the delays slept between the attempts on this page, in ms
    results,          \* the rows of the page in hand
    allTransactions,  \* candidates found so far by the strategy that is running
    primaryEnd,       \* how the index strategy ended
    currentBlockNum,  \* first block of the next window of the block scan
    apiPc,            \* position of the POST handler
    timer,            \* the deadline timer of the request
    run,              \* the promise of getOutstandingDebtFromBlockSearch
    race,             \* the promise of Promise.race
    responses,        \* the responses sent for the request
    upstream,         \* how many upstream requests the run of the request has issued
    clock,            \* the wall clock
    tokenAddress,     \* the token a report is asked for
    liquidity,        \* what getLaunchPoolBalance returns to the reports
    reports,          \* the results of successive reports on one ledger
    windows,          \* the block windows the scan has queried, oldest first
    scanLog,          \* what became of each transaction hash of the latest window
    twin              \* two runs of getOutstandingDebtFromBlockSearch side by side

pipeVars == <<pc, discovered, cur, outstandingDebts, lendersInMAV, totalLent,
              liquiditySource, result, floorLog, resolution>>
foldVars == <<foldInput, foldPos>>
resolverVars == <<rIn, rOut>>
discVars == <<dpc, days, page, retries, attempts, waits, results, allTransactions,
              primaryEnd, currentBlockNum>>

\* the variables the run of getOutstandingDebtFromBlockSearch leaves alone
apiVars == <<apiPc, timer, run, race, responses, upstream>>
reportVars == <<clock, tokenAddress, liquidity, reports>>
scanVars == <<windows, scanLog>>
twinVars == <<twin>>
otherVars == <<foldVars, resolverVars, discVars, apiVars, reportVars, scanVars, twinVars>>

vars == <<pipeVars, otherVars>>

-----------------------------------------------------------------------------
(* Bounds and program constants *)

UNIT == 4             \* 10^18 base units = one whole MAV (scaled)
MantBits == 2         \* significand width of a JS number (53, scaled)
MaxWallets == 3       \* distinct senders in a run
MaxDebt == 9          \* cap on a single ledger balance
WideWallets == 11     \* distinct senders in the many-wallet runs
TOP_N == 10           \* "Top 10 wallets" of the documentation

NoTx == [from |-> 0, methodId |-> "none"]
NoResult == [lenders |-> <<>>, totalLent |-> -1, totalPoolLiquidity |-> -1]

METHOD_IDS == {"0xa4b3bdfd", "0x7407572b", "0x59b34772", "0xa8b1a5b3"}

\* Amounts carried by the MAV Transfer events of a receipt (sum to / sum from
\* the sender), and amounts encoded in the call input.
TransferAmounts == {0, 1, UNIT}
RawInputs == {0, UNIT, 2 * UNIT, -1}     \* -1: input too short to hold the slot
WideTransfers == {2 * UNIT, 2 * UNIT + 1}   \* borrowings of the many-wallet runs
LiquidityReads == {0, 3 * UNIT, 6 * UNIT + 1}

\* 329568801605593620299305n, the default pool size
DefaultLiquidity == 329568 * UNIT + 3

-----------------------------------------------------------------------------
(* JS numbers *)

RECURSIVE Quantum(_, _)
\* spacing of the doubles around n: the least power of two q with n < 2^MantBits * q
Quantum(n, q) == IF n < (2 ^ MantBits) * q THEN q ELSE Quantum(n, 2 * q)

\* Number(bigint) for n >= 0: round to nearest, ties to even
NumberOfNat(n) ==
    LET q  == Quantum(n, 1)
        m  == n \div q
        lo == m * q
        r  == n - lo
    IN  IF r = 0 THEN n
        ELSE IF 2 * r < q THEN lo
        ELSE IF 2 * r > q THEN lo + q
        ELSE IF m % 2 = 0 THEN lo ELSE lo + q

Number(n) == IF n < 0 THEN 0 - NumberOfNat(0 - n) ELSE NumberOfNat(n)

\* Number(x) / 1e18, represented by its multiple of UNIT
ToMAV(n) == Number(n)

-----------------------------------------------------------------------------
(* The ledger: a JS Map keeps its keys in insertion order *)

Wallets(m) == {m[i].wallet : i \in 1..Len(m)}

IndexOf(m, w) == CHOOSE i \in 1..Len(m) : m[i].wallet = w

\* outstandingDebts.get(wallet) || 0n
MapGetOrZero(m, w) == IF w \in Wallets(m) THEN m[IndexOf(m, w)].debt ELSE 0

\* variant: keeps positive balances only and deletes the key otherwise
MapSetDropZero(m, w, d) ==
    IF d > 0
    THEN IF w \in Wallets(m)
         THEN [m EXCEPT ![IndexOf(m, w)] = [wallet |-> w, debt |-> d]]
         ELSE Append(m, [wallet |-> w, debt |-> d])
    ELSE SelectSeq(m, LAMBDA e : e.wallet # w)

\* outstandingDebts.set(wallet, newDebt)
MapSet(m, w, d) ==
    IF w \in Wallets(m)
    THEN [m EXCEPT ![IndexOf(m, w)] = [wallet |-> w, debt |-> d]]
    ELSE Append(m, [wallet |-> w, debt |-> d])

\* variant: the sum without the floor
NewDebtUnfloored(currentDebt, amount) == currentDebt + amount

\* newDebt = currentDebt + amount, floored at 0
NewDebt(currentDebt, amount) ==
    LET newDebt == currentDebt + amount
    IN  IF newDebt < 0 THEN 0 ELSE newDebt

\* one loop body from "const wallet" to outstandingDebts.set
ApplyDelta(m, w, amount) == MapSet(m, w, NewDebt(MapGetOrZero(m, w), amount))

-----------------------------------------------------------------------------
(* Amount Resolver *)

Null == [isNull |-> TRUE, amount |-> 0]
Amount(a) == [isNull |-> FALSE, amount |-> a]

\* getActualMAVAmountFromEvents: the receipt fetch throws (caught: null), or the
\* net of the MAV transfers to the sender minus those from the sender
getActualMAVAmountFromEvents(receiptOk, received, sent) ==
    IF ~receiptOk THEN Null ELSE Amount(received - sent)

\* JS truthiness of a "bigint | null": null and 0n are falsy
Truthy(a) == ~a.isNull /\ a.amount # 0

\* variant: an input too short for the slot decodes to zero
decodeShortAsZero(methodId, raw) ==
    IF methodId \in METHOD_IDS
    THEN IF raw < 0 THEN Amount(0) ELSE Amount(raw \div UNIT)
    ELSE Null

\* decodeTransactionData: every catalog branch reads one 32-byte slot and
\* divides it by DECIMAL_FACTOR = 10^18; BigInt('0x') of a short input throws
\* (caught: null); an unknown methodId gives null
decodeTransactionData(methodId, raw) ==
    IF methodId \in METHOD_IDS
    THEN IF raw < 0 THEN Null ELSE Amount(raw \div UNIT)
    ELSE Null

-----------------------------------------------------------------------------
(* Ranker / Reporter *)

\* the sort comparator (a, b) => Number(b.balance - a.balance)
Compare(a, b) == Number(b.balance - a.balance)

RECURSIVE InsertSortedUnstable(_, _)
\* variant: x goes before the elements it compares equal to
InsertSortedUnstable(s, x) ==
    IF s = <<>> THEN <<x>>
    ELSE IF Compare(Head(s), x) < 0
         THEN <<Head(s)>> \o InsertSortedUnstable(Tail(s), x)
         ELSE <<x>> \o s

RECURSIVE InsertSorted(_, _)
\* x goes behind every element the comparator does not order after it
InsertSorted(s, x) ==
    IF s = <<>> THEN <<x>>
    ELSE IF Compare(Head(s), x) <= 0
         THEN <<Head(s)>> \o InsertSorted(Tail(s), x)
         ELSE <<x>> \o s

RECURSIVE SortPrefix(_, _)
SortPrefix(s, n) == IF n = 0 THEN <<>> ELSE InsertSorted(SortPrefix(s, n - 1), s[n])

\* Array.prototype.sort with Compare: a stable sort
SortLenders(s) == SortPrefix(s, Len(s))

\* variant: keeps every non-zero balance
DustFilterPositive(m) == SelectSeq(m, LAMBDA e : e.debt > 0)

\* .filter(([_, debt]) => debt > 1000000000000000000n)
DustFilter(m) == SelectSeq(m, LAMBDA e : e.debt > UNIT)

\* variant: no filter before the sort
LendersUnfiltered(m) ==
    SortLenders([i \in 1..Len(m) |->
        [address |-> m[i].wallet, balance |-> m[i].debt, poolPercentage |-> 0]])

\* entries -> filter -> map -> sort
Lenders(m) ==
    LET kept == DustFilter(m)
    IN  SortLenders([i \in 1..Len(kept) |->
            [address |-> kept[i].wallet, balance |-> kept[i].debt, poolPercentage |-> 0]])

RECURSIVE SumBalances(_)
\* lenders.reduce((sum, lender) => sum + lender.balance, 0n)
SumBalances(s) == IF s = <<>> THEN 0 ELSE Head(s).balance + SumBalances(Tail(s))

\* totalLent > 0n ? Number((BigInt(Math.floor(balance * 1e18)) * 10000n) / totalLent) / 100 : 0
\* in hundredths of a percent (the quotient is far below 2^53, so Number is exact)
PoolPercentage(balanceMAV, total) ==
    IF total > 0 THEN (balanceMAV * 10000) \div total ELSE 0

\* lenders.map(balance -> Number(balance) / 1e18), then the percentages
LendersInMAV(lenders, total) ==
    [i \in 1..Len(lenders) |->
        [address |-> lenders[i].address,
         balance |-> ToMAV(lenders[i].balance),
         poolPercentage |-> PoolPercentage(ToMAV(lenders[i].balance), total)]]

\* variant: a failed read is reported as an empty pool
getLaunchPoolBalanceNoDefault(readOk, totalSupply) ==
    IF readOk THEN totalSupply ELSE 0

\* getLaunchPoolBalance: totalSupply of the MAV token, or the default when the read throws
getLaunchPoolBalance(readOk, totalSupply) ==
    IF readOk THEN totalSupply ELSE DefaultLiquidity

-----------------------------------------------------------------------------
(* The run of getOutstandingDebtFromBlockSearch *)

NoCandidate == [receiptOk |-> FALSE, received |-> 0, sent |-> 0,
                methodId |-> "none", raw |-> 0]
NoOutcome == [path |-> "none", amount |-> 0]

ResolverIdle == rIn = NoCandidate /\ rOut = NoOutcome

ApiIdle ==
    /\ apiPc = "idle"
    /\ timer = "none"
    /\ run = "none"
    /\ race = "none"
    /\ responses = <<>>
    /\ upstream = 0

ScanIdle == windows = <<>> /\ scanLog = <<>>

TwinIdle == twin = <<>>

ReportIdle ==
    /\ clock = 0
    /\ tokenAddress = "none"
    /\ liquidity = 0
    /\ reports = <<>>

DiscoveryIdle ==
    /\ dpc = "idle"
    /\ days = 0
    /\ page = 0
    /\ retries = 0
    /\ attempts = 0
    /\ waits = <<>>
    /\ results = <<>>
    /\ allTransactions = <<>>
    /\ primaryEnd = "none"
    /\ currentBlockNum = 0

Init ==
    /\ pc = "start"
    /\ discovered = "none"
    /\ cur = NoTx
    /\ outstandingDebts = <<>>
    /\ lendersInMAV = <<>>
    /\ totalLent = 0
    /\ liquiditySource = "none"
    /\ result = NoResult
    /\ floorLog = 0
    /\ resolution = "none"
    /\ foldInput = <<>>
    /\ foldPos = 0
    /\ ResolverIdle
    /\ ScanIdle
    /\ TwinIdle
    /\ ApiIdle
    /\ ReportIdle
    /\ DiscoveryIdle

\* Step 1: await searchTransactionsByContractAndMethods(days)
Discover ==
    /\ pc = "start"
    /\ \/ discovered' = "empty" /\ pc' = "liquidityEmpty"
       \/ discovered' = "some" /\ pc' = "loopFirst"
       \/ discovered' = "none" /\ pc' = "failed"      \* both strategies threw
    /\ UNCHANGED <<cur, outstandingDebts, lendersInMAV, totalLent,
                   liquiditySource, result, floorLog, resolution, otherVars>>

\* loop head: the next candidate and await eventClient.getTransaction.
\* Senders are numbered in the order in which they enter the ledger.
FetchTransactionOf(maxW) ==
    /\ pc \in {"loopFirst", "loop"}
    /\ \E from \in 1..maxW, methodId \in METHOD_IDS, ok \in BOOLEAN :
          /\ from <= Len(outstandingDebts) + 1
          /\ IF ok
             THEN cur' = [from |-> from, methodId |-> methodId] /\ pc' = "events"
             ELSE cur' = NoTx /\ pc' = "loop"          \* caught, next candidate
          /\ resolution' = IF ok THEN "none" ELSE "unresolved"
    /\ floorLog' = 0
    /\ UNCHANGED <<discovered, outstandingDebts, lendersInMAV, totalLent,
                   liquiditySource, result, otherVars>>

\* the rest of the loop body once the amount is known
Aggregate(amount, maxDebt) ==
    /\ NewDebt(MapGetOrZero(outstandingDebts, cur.from), amount) <= maxDebt
    /\ outstandingDebts' = ApplyDelta(outstandingDebts, cur.from, amount)
    /\ floorLog' = IF MapGetOrZero(outstandingDebts, cur.from) + amount < 0
                   THEN cur.from ELSE 0
    /\ cur' = NoTx
    /\ pc' = "loop"

\* await getActualMAVAmountFromEvents(fullTx, tx.from)
ResolveFromEventsOf(receivable, sendable, maxDebt) ==
    /\ pc = "events"
    /\ \E receiptOk \in BOOLEAN, received \in receivable, sent \in sendable :
          LET actualMAVAmount == getActualMAVAmountFromEvents(receiptOk, received, sent)
          IN  IF Truthy(actualMAVAmount)
              THEN Aggregate(actualMAVAmount.amount, maxDebt) /\ resolution' = "resolved"
              ELSE /\ pc' = "decode"
                   /\ resolution' = IF receiptOk THEN "none" ELSE "noReceipt"
                   /\ UNCHANGED <<cur, outstandingDebts, floorLog>>
    /\ UNCHANGED <<discovered, lendersInMAV, totalLent, liquiditySource, result,
                   otherVars>>

\* await decodeTransactionData(fullTx, tx.methodId)
DecodeFallbackOf(raws, maxDebt) ==
    /\ pc = "decode"
    /\ \E raw \in raws :
          LET decodedData == decodeTransactionData(cur.methodId, raw)
          IN  /\ IF decodedData.isNull
                 THEN cur' = NoTx /\ pc' = "loop"                     \* continue
                      /\ UNCHANGED <<outstandingDebts, floorLog>>
                 ELSE Aggregate(decodedData.amount, maxDebt)
              \* a slot that cannot be read admits no amount
              /\ resolution' = IF raw < 0 THEN "unresolved" ELSE "resolved"
    /\ UNCHANGED <<discovered, lendersInMAV, totalLent, liquiditySource, result,
                   otherVars>>

\* after the loop: filter, sort, total, convert, percentages
Report ==
    /\ pc = "loop"
    /\ LET lenders == Lenders(outstandingDebts)
           total == SumBalances(lenders)
       IN  /\ totalLent' = total
           /\ lendersInMAV' = LendersInMAV(lenders, total)
    /\ pc' = "liquidity"
    /\ UNCHANGED <<discovered, cur, outstandingDebts, liquiditySource, result,
                   floorLog, resolution, otherVars>>

\* variant: a failed liquidity read is not caught
ReturnEmptyThrowing ==
    /\ pc = "liquidityEmpty"
    /\ \E readOk \in BOOLEAN, totalSupply \in LiquidityReads :
          IF readOk
          THEN /\ liquiditySource' = "live"
               /\ result' = [lenders |-> <<>>, totalLent |-> 0,
                             totalPoolLiquidity |-> ToMAV(totalSupply)]
               /\ pc' = "done"
          ELSE /\ pc' = "failed"
               /\ UNCHANGED <<liquiditySource, result>>
    /\ UNCHANGED <<discovered, cur, outstandingDebts, lendersInMAV, totalLent,
                   floorLog, resolution, otherVars>>

\* the early return of an empty search: await getLaunchPoolBalance()
ReturnEmpty ==
    /\ pc = "liquidityEmpty"
    /\ \E readOk \in BOOLEAN, totalSupply \in LiquidityReads :
          /\ liquiditySource' = IF readOk THEN "live" ELSE "fallback"
          /\ result' = [lenders |-> <<>>,
                        totalLent |-> 0,
                        totalPoolLiquidity |-> ToMAV(getLaunchPoolBalance(readOk, totalSupply))]
    /\ pc' = "done"
    /\ UNCHANGED <<discovered, cur, outstandingDebts, lendersInMAV, totalLent,
                   floorLog, resolution, otherVars>>

\* the final return: await getLaunchPoolBalance()
ReturnResult ==
    /\ pc = "liquidity"
    /\ \E readOk \in BOOLEAN, totalSupply \in LiquidityReads :
          /\ liquiditySource' = IF readOk THEN "live" ELSE "fallback"
          /\ result' = [lenders |-> lendersInMAV,
                        totalLent |-> ToMAV(totalLent),
                        totalPoolLiquidity |-> ToMAV(getLaunchPoolBalance(readOk, totalSupply))]
    /\ pc' = "done"
    /\ UNCHANGED <<discovered, cur, outstandingDebts, lendersInMAV, totalLent,
                   floorLog, resolution, otherVars>>

FetchTransaction == FetchTransactionOf(MaxWallets)
ResolveFromEvents == ResolveFromEventsOf(TransferAmounts, TransferAmounts, MaxDebt)
DecodeFallback == DecodeFallbackOf(RawInputs, MaxDebt)

Next ==
    \/ Discover
    \/ FetchTransaction
    \/ ResolveFromEvents
    \/ DecodeFallback
    \/ Report
    \/ ReturnEmpty
    \/ ReturnResult

Spec == Init /\ [][Next]_vars

-----------------------------------------------------------------------------
(* Runs with many wallets: every sender borrows once, nothing is repaid *)

FetchTransactionWide == FetchTransactionOf(WideWallets)
ResolveFromEventsWide == ResolveFromEventsOf(WideTransfers, {0}, MaxDebt)
DecodeFallbackWide == DecodeFallbackOf({-1}, MaxDebt)

NextWide ==
    \/ Discover
    \/ FetchTransactionWide
    \/ ResolveFromEventsWide
    \/ DecodeFallbackWide
    \/ Report
    \/ ReturnEmpty
    \/ ReturnResult

SpecWide == Init /\ [][NextWide]_vars

-----------------------------------------------------------------------------
(* The aggregation step in isolation, on given sequences of resolved deltas *)

MaxFoldLen == 3
FoldWallets == 1..2
FoldAmounts == {-80, -30, 20, 50, 100}

FoldInputs ==
    UNION {[1..n -> [wallet : FoldWallets, amount : FoldAmounts]] : n \in 0..MaxFoldLen}

InitFold ==
    /\ pc = "fold"
    /\ discovered = "some"
    /\ cur = NoTx
    /\ outstandingDebts = <<>>
    /\ lendersInMAV = <<>>
    /\ totalLent = 0
    /\ liquiditySource = "none"
    /\ result = NoResult
    /\ floorLog = 0
    /\ resolution = "none"
    /\ foldInput \in FoldInputs
    /\ foldPos = 0
    /\ ResolverIdle
    /\ ScanIdle
    /\ TwinIdle
    /\ ApiIdle
    /\ ReportIdle
    /\ DiscoveryIdle

\* one iteration of the loop whose resolver produced foldInput[foldPos + 1]
FoldStep ==
    /\ pc = "fold"
    /\ foldPos < Len(foldInput)
    /\ LET delta == foldInput[foldPos + 1]
       IN  /\ outstandingDebts' = ApplyDelta(outstandingDebts, delta.wallet, delta.amount)
           /\ floorLog' = IF MapGetOrZero(outstandingDebts, delta.wallet) + delta.amount < 0
                          THEN delta.wallet ELSE 0
    /\ foldPos' = foldPos + 1
    /\ UNCHANGED <<pc, discovered, cur, lendersInMAV, totalLent, liquiditySource,
                   result, resolution, foldInput, resolverVars, discVars,
                   apiVars, reportVars, scanVars, twinVars>>

NextFold == FoldStep

SpecFold == InitFold /\ [][NextFold]_vars

-----------------------------------------------------------------------------
(* The loop body on one candidate and a one-entry ledger, in isolation *)

ResolverInputs ==
    [receiptOk : BOOLEAN, received : TransferAmounts, sent : TransferAmounts,
     methodId : METHOD_IDS, raw : RawInputs]

ResolverLedgers == {<<>>} \cup {<<[wallet |-> 1, debt |-> d]>> : d \in {0, UNIT, 2 * UNIT}}

InitResolve ==
    /\ pc = "resolve"
    /\ discovered = "some"
    /\ cur = NoTx
    /\ outstandingDebts \in ResolverLedgers
    /\ lendersInMAV = <<>>
    /\ totalLent = 0
    /\ liquiditySource = "none"
    /\ result = NoResult
    /\ floorLog = 0
    /\ resolution = "none"
    /\ foldInput = <<>>
    /\ foldPos = 0
    /\ rIn \in ResolverInputs
    /\ rOut = NoOutcome
    /\ DiscoveryIdle
    /\ ScanIdle
    /\ TwinIdle
    /\ ApiIdle
    /\ ReportIdle

\* lines 333-362 for the candidate rIn of wallet 1
ResolveOne ==
    /\ pc = "resolve"
    /\ rOut = NoOutcome
    /\ LET actualMAVAmount ==
               getActualMAVAmountFromEvents(rIn.receiptOk, rIn.received, rIn.sent)
           decodedData == decodeTransactionData(rIn.methodId, rIn.raw)
       IN  IF Truthy(actualMAVAmount)
           THEN /\ rOut' = [path |-> "events", amount |-> actualMAVAmount.amount]
                /\ outstandingDebts' = ApplyDelta(outstandingDebts, 1, actualMAVAmount.amount)
           ELSE IF decodedData.isNull
           THEN /\ rOut' = [path |-> "skipped", amount |-> 0]
                /\ UNCHANGED outstandingDebts
           ELSE /\ rOut' = [path |-> "decode", amount |-> decodedData.amount]
                /\ outstandingDebts' = ApplyDelta(outstandingDebts, 1, decodedData.amount)
    /\ UNCHANGED <<pc, discovered, cur, lendersInMAV, totalLent, liquiditySource,
                   result, floorLog, resolution, foldVars, rIn, discVars,
                   apiVars, reportVars, scanVars, twinVars>>

NextResolve == ResolveOne

SpecResolve == InitResolve /\ [][NextResolve]_vars

-----------------------------------------------------------------------------
(* Discovery: searchTransactionsByContractAndMethods and its fallback,
   searchTransactionsByChunkedApproach.  Page size, blocks per day and window
   size are scaled down; their proportions to each other are not relied on. *)

OFFSET == 2              \* rows per page (200)
MAX_RETRIES == 3         \* while (retries < 3 && !success)
RETRY_WAIT == 1000       \* ms
BlocksPerDay == 3        \* blocksPerDay (7200)
CHUNK_SIZE == 1          \* CHUNK_SIZE (1000)
maxTxsPerChunk == 1       \* 50: the cap of getChunkedTransactions
MaxPages == 3            \* the index holds fewer than MaxPages * OFFSET rows
MaxHashes == 2           \* distinct transaction hashes in the logs of one window
CurrentBlock == 7                \* the chain head
DaysInputs == {1, 2}

ITOKEN_MANAGER_ADDRESS == "manager"

\* rows of the index; methodId stands for input.slice(0, 10)
IndexRows ==
    [to : {ITOKEN_MANAGER_ADDRESS, "other"}, isError : {"0", "1"},
     methodId : {"0xa4b3bdfd", "0x00000000"}, blockNumber : {0, CurrentBlock}]

Pages(p) ==
    {rows \in UNION {[1..n -> IndexRows] : n \in 0..OFFSET} :
        p = MaxPages => Len(rows) < OFFSET}

\* variant: reverted transactions are kept
IsTargetOrReverted(tx) ==
    /\ tx.to = ITOKEN_MANAGER_ADDRESS
    /\ tx.methodId \in METHOD_IDS

\* the test of results.forEach
IsTarget(tx) ==
    /\ ~(tx.isError = "1" \/ tx.to # ITOKEN_MANAGER_ADDRESS)
    /\ tx.methodId \in METHOD_IDS

\* the records pushed to allTransactions, tagged with the strategy that found
\* them and the upstream row they were made from
Pushed(kept, via) ==
    [i \in 1..Len(kept) |->
        [blockNumber |-> kept[i].blockNumber, methodId |-> kept[i].methodId,
         via |-> via, row |-> kept[i]]]

Targets(rows) == Pushed(SelectSeq(rows, IsTarget), "primary")

\* the transactions behind the logs of blocks lo..hi, each with the outcome of
\* its getTransaction; a rejected fetch delivers no body, so one row stands
\* for it
ChainRows(lo, hi) ==
    {r \in [to : {ITOKEN_MANAGER_ADDRESS, "other"},
            methodId : {"0xa4b3bdfd", "0x00000000"},
            blockNumber : lo..hi, fetchOk : BOOLEAN] :
        ~r.fetchOk => (r.to = "other" /\ r.methodId = "0x00000000" /\ r.blockNumber = lo)}

WindowRows(lo, hi) == UNION {[1..n -> ChainRows(lo, hi)] : n \in 0..MaxHashes}

\* the test of the loop over uniqueTxHashes
IsScanTarget(tx) ==
    /\ tx.fetchOk
    /\ tx.to = ITOKEN_MANAGER_ADDRESS
    /\ tx.methodId \in METHOD_IDS

\* variant: the first failed fetch ends the loop over the window's hashes
ScanTargetsUntilFailure(rows) ==
    LET bad == {i \in 1..Len(rows) : ~rows[i].fetchOk}
        first == IF bad = {} THEN Len(rows) + 1
                 ELSE CHOOSE i \in bad : \A j \in bad : i <= j
    IN  Pushed(SelectSeq(SubSeq(rows, 1, first - 1), IsScanTarget), "fallback")

ScanTargets(rows) == Pushed(SelectSeq(rows, IsScanTarget), "fallback")

InitDiscovery ==
    /\ pc = "start"
    /\ discovered = "none"
    /\ cur = NoTx
    /\ outstandingDebts = <<>>
    /\ lendersInMAV = <<>>
    /\ totalLent = 0
    /\ liquiditySource = "none"
    /\ result = NoResult
    /\ floorLog = 0
    /\ resolution = "none"
    /\ foldInput = <<>>
    /\ foldPos = 0
    /\ ResolverIdle
    /\ ScanIdle
    /\ TwinIdle
    /\ ApiIdle
    /\ ReportIdle
    /\ dpc = "primary"
    /\ days \in DaysInputs
    /\ page = 1
    /\ retries = 0
    /\ attempts = 0
    /\ waits = <<>>
    /\ results = <<>>
    /\ allTransactions = <<>>
    /\ primaryEnd = "none"
    /\ currentBlockNum = 0

\* an attempt answered with status '1' and an array (a missing result counts
\* as the empty array)
PrimaryPage ==
    /\ dpc = "primary"
    /\ \E rows \in Pages(page) :
          IF Len(rows) = 0
          THEN /\ results' = rows
               /\ primaryEnd' = "emptyPage"
               /\ dpc' = "returned"
               /\ attempts' = attempts + 1
               /\ UNCHANGED <<page, retries, waits, allTransactions>>
          ELSE /\ allTransactions' = allTransactions \o Targets(rows)
               /\ page' = page + 1
               /\ IF Len(rows) = OFFSET
                  THEN /\ retries' = 0            \* next iteration of while (hasMore)
                       /\ attempts' = 0
                       /\ waits' = <<>>
                       /\ results' = <<>>
                       /\ UNCHANGED <<dpc, primaryEnd>>
                  ELSE /\ results' = rows
                       /\ primaryEnd' = "shortPage"
                       /\ dpc' = "returned"
                       /\ attempts' = attempts + 1
                       /\ UNCHANGED <<retries, waits>>
    /\ UNCHANGED <<pipeVars, foldVars, resolverVars, apiVars, reportVars, scanVars, twinVars, days, currentBlockNum>>

\* an attempt answered with status '1' and a result that is not an array
PrimaryInvalidFormat ==
    /\ dpc = "primary"
    /\ attempts' = attempts + 1
    /\ primaryEnd' = "format"
    /\ dpc' = "fallback"
    /\ UNCHANGED <<pipeVars, foldVars, resolverVars, apiVars, reportVars, scanVars, twinVars, days, page, retries, waits,
                   results, allTransactions, currentBlockNum>>

\* variant: without the test of hasMore after the retry loop
PrimaryNoTransactionsThrowing ==
    /\ dpc = "primary"
    /\ attempts' = attempts + 1
    /\ primaryEnd' = "noTransactions"
    /\ dpc' = "fallback"
    /\ UNCHANGED <<pipeVars, foldVars, resolverVars, apiVars, reportVars, scanVars, twinVars, days, page, retries, waits,
                   results, allTransactions, currentBlockNum>>

\* an attempt answered with status '0' and 'No transactions found'
PrimaryNoTransactions ==
    /\ dpc = "primary"
    /\ attempts' = attempts + 1
    /\ primaryEnd' = "noTransactions"
    /\ dpc' = "returned"
    /\ UNCHANGED <<pipeVars, foldVars, resolverVars, apiVars, reportVars, scanVars, twinVars, days, page, retries, waits,
                   results, allTransactions, currentBlockNum>>

TransientKinds == {"rateLimit", "apiError", "unexpected", "network"}

\* the delay slept after a failed attempt, 0 for none
WaitAfter(kind, failedBefore) ==
    IF kind = "rateLimit" THEN RETRY_WAIT * (failedBefore + 1)
    ELSE IF failedBefore + 1 < MAX_RETRIES THEN RETRY_WAIT ELSE 0

\* variant: one attempt more before giving up
PrimaryTransientOneMore ==
    /\ dpc = "primary"
    /\ \E kind \in TransientKinds :
          waits' = IF WaitAfter(kind, retries) > 0
                   THEN Append(waits, WaitAfter(kind, retries)) ELSE waits
    /\ attempts' = attempts + 1
    /\ retries' = retries + 1
    /\ IF retries + 1 <= MAX_RETRIES
       THEN UNCHANGED <<dpc, primaryEnd>>
       ELSE dpc' = "fallback" /\ primaryEnd' = "retries"
    /\ UNCHANGED <<pipeVars, foldVars, resolverVars, apiVars, reportVars, scanVars, twinVars, days, page, results,
                   allTransactions, currentBlockNum>>

\* an attempt that fails: rate limit, other API error, unexpected status, or
\* a rejected fetch
PrimaryTransient ==
    /\ dpc = "primary"
    /\ \E kind \in TransientKinds :
          waits' = IF WaitAfter(kind, retries) > 0
                   THEN Append(waits, WaitAfter(kind, retries)) ELSE waits
    /\ attempts' = attempts + 1
    /\ retries' = retries + 1
    /\ IF retries + 1 < MAX_RETRIES
       THEN UNCHANGED <<dpc, primaryEnd>>
       ELSE dpc' = "fallback" /\ primaryEnd' = "retries"   \* thrown and caught
    /\ UNCHANGED <<pipeVars, foldVars, resolverVars, apiVars, reportVars, scanVars, twinVars, days, page, results,
                   allTransactions, currentBlockNum>>

\* variant: the scan appends to what the index strategy had found
FallbackStartKeeping ==
    /\ dpc = "fallback"
    /\ \E ok \in BOOLEAN :
          IF ok
          THEN /\ currentBlockNum' = CurrentBlock - days * BlocksPerDay
               /\ dpc' = IF CurrentBlock - days * BlocksPerDay < CurrentBlock THEN "window" ELSE "returned"
          ELSE /\ dpc' = "threw"
               /\ UNCHANGED currentBlockNum
    /\ windows' = <<>>
    /\ scanLog' = <<>>
    /\ retries' = 0
    /\ attempts' = 0
    /\ waits' = <<>>
    /\ UNCHANGED <<pipeVars, foldVars, resolverVars, apiVars, reportVars, twinVars, days, page,
                   results, primaryEnd, allTransactions>>

\* searchTransactionsByChunkedApproach up to its loop: await getBlockNumber()
FallbackStart ==
    /\ dpc = "fallback"
    /\ \E ok \in BOOLEAN :
          IF ok
          THEN /\ currentBlockNum' = CurrentBlock - days * BlocksPerDay
               /\ allTransactions' = <<>>
               /\ dpc' = IF CurrentBlock - days * BlocksPerDay < CurrentBlock THEN "window" ELSE "returned"
          ELSE /\ dpc' = "threw"                  \* Chunked approach failed
               /\ UNCHANGED <<currentBlockNum, allTransactions>>
    /\ windows' = <<>>
    /\ scanLog' = <<>>
    /\ retries' = 0                    \* the locals of the index strategy are gone
    /\ attempts' = 0
    /\ waits' = <<>>
    /\ UNCHANGED <<pipeVars, foldVars, resolverVars, apiVars, reportVars, twinVars, days, page,
                   results, primaryEnd>>

\* what the loop over uniqueTxHashes does with one hash
Outcome(tx) ==
    IF ~tx.fetchOk THEN "failed"                        \* caught, next hash
    ELSE IF tx.to # ITOKEN_MANAGER_ADDRESS THEN "skipped"
    ELSE IF tx.methodId \notin METHOD_IDS THEN "skipped"
    ELSE "pushed"

Outcomes(rows) == [i \in 1..Len(rows) |-> Outcome(rows[i])]

\* variant: a window that ends before it starts
ActualEndBlockBehind(from) == from - 1

\* the last block of the window that starts at from
ActualEndBlock(from) ==
    LET endBlock == from + CHUNK_SIZE
    IN  IF endBlock > CurrentBlock THEN CurrentBlock ELSE endBlock

\* one iteration of while (currentBlockNum < currentBlock); logged: whether the
\* outcome of the log query and of each hash is recorded
FallbackWindowOf(logged) ==
    /\ dpc = "window"
    /\ LET actualEndBlock == ActualEndBlock(currentBlockNum)
           Window(logs) == [fromBlock |-> currentBlockNum, toBlock |-> actualEndBlock,
                            logs |-> IF logged THEN logs ELSE "unlogged"]
       IN  /\ \/ /\ UNCHANGED allTransactions                 \* getLogs throws
                 /\ windows' = Append(windows, Window("failed"))
                 /\ scanLog' = <<>>
              \/ \E rows \in WindowRows(currentBlockNum, actualEndBlock) :
                    /\ allTransactions' = allTransactions \o ScanTargets(rows)
                    /\ windows' = Append(windows, Window("ok"))
                    /\ scanLog' = IF logged THEN Outcomes(rows) ELSE <<>>
           /\ currentBlockNum' = actualEndBlock + 1
           /\ dpc' = IF actualEndBlock + 1 < CurrentBlock THEN "window" ELSE "returned"
    /\ UNCHANGED <<pipeVars, foldVars, resolverVars, apiVars, reportVars, twinVars, days, page,
                   retries, attempts, waits, results, primaryEnd>>

FallbackWindow == FallbackWindowOf(FALSE)

NextDiscovery ==
    \/ PrimaryPage
    \/ PrimaryInvalidFormat
    \/ PrimaryNoTransactions
    \/ PrimaryTransient
    \/ FallbackStart
    \/ FallbackWindow

SpecDiscovery == InitDiscovery /\ [][NextDiscovery]_vars

\* every request is answered in the end: a pending step is taken
SpecDiscoveryLive == SpecDiscovery /\ WF_vars(NextDiscovery)

-----------------------------------------------------------------------------
(* Two invocations of getOutstandingDebtFromBlockSearch whose awaits
   interleave.  Each invocation holds its own const outstandingDebts = new
   Map(); the only module-level state, currentRpcIndex, is written by
   getNextRpcClient alone, which a run does not call.  twin[r].input is what
   the upstream answers to invocation r, already resolved to deltas. *)

MaxTwinLen == 2          \* candidates of one invocation
Runs == 1..2
TwinDeltas == [wallet : 1..2, amount : {2 * UNIT, 0 - UNIT}]
TwinInputs == UNION {[1..n -> TwinDeltas] : n \in 0..MaxTwinLen}

NoRunResult == [lenders |-> <<>>, totalLent |-> -1]

\* variant: one ledger at module level, the first invocation's
LedgerShared(t, r) == t[1].ledger

\* the ledger invocation r reads and writes: its own local
LedgerOf(t, r) == t[r].ledger

\* lenders and total of the object returned
RunResult(m) ==
    LET lenders == Lenders(m)
        total == SumBalances(lenders)
    IN  [lenders |-> LendersInMAV(lenders, total), totalLent |-> ToMAV(total)]

InitTwin ==
    /\ pc = "start"
    /\ discovered = "none"
    /\ cur = NoTx
    /\ outstandingDebts = <<>>
    /\ lendersInMAV = <<>>
    /\ totalLent = 0
    /\ liquiditySource = "none"
    /\ result = NoResult
    /\ floorLog = 0
    /\ resolution = "none"
    /\ foldInput = <<>>
    /\ foldPos = 0
    /\ ResolverIdle
    /\ ScanIdle
    /\ ApiIdle
    /\ ReportIdle
    /\ DiscoveryIdle
    /\ \E in1 \in TwinInputs, in2 \in TwinInputs :
          twin = [r \in Runs |->
                    [state |-> "called", input |-> IF r = 1 THEN in1 ELSE in2,
                     pos |-> 0, ledger |-> <<>>, result |-> NoRunResult]]

\* invocation r gets its candidates and constructs its ledger
TwinStart(r) ==
    /\ twin[r].state = "called"
    /\ twin' = [twin EXCEPT ![r].state = "loop", ![r].ledger = <<>>]
    /\ UNCHANGED <<pipeVars, foldVars, resolverVars, discVars, apiVars, reportVars, scanVars>>

\* one iteration of invocation r's loop, after its awaits were answered
TwinStep(r) ==
    /\ twin[r].state = "loop"
    /\ twin[r].pos < Len(twin[r].input)
    /\ LET delta == twin[r].input[twin[r].pos + 1]
       IN  twin' = [twin EXCEPT
                      ![r].ledger = ApplyDelta(LedgerOf(twin, r), delta.wallet, delta.amount),
                      ![r].pos = twin[r].pos + 1]
    /\ UNCHANGED <<pipeVars, foldVars, resolverVars, discVars, apiVars, reportVars, scanVars>>

\* invocation r leaves its loop and returns
TwinReturn(r) ==
    /\ twin[r].state = "loop"
    /\ twin[r].pos = Len(twin[r].input)
    /\ twin' = [twin EXCEPT ![r].state = "returned",
                            ![r].result = RunResult(LedgerOf(twin, r))]
    /\ UNCHANGED <<pipeVars, foldVars, resolverVars, discVars, apiVars, reportVars, scanVars>>

NextTwin ==
    \/ \E r \in Runs : TwinStart(r)
    \/ \E r \in Runs : TwinStep(r)
    \/ \E r \in Runs : TwinReturn(r)

SpecTwin == InitTwin /\ [][NextTwin]_vars

-----------------------------------------------------------------------------
(* The block scan alone, entered after the index strategy failed on its
   first page, with every window logged *)

InitScan ==
    /\ pc = "start"
    /\ discovered = "none"
    /\ cur = NoTx
    /\ outstandingDebts = <<>>
    /\ lendersInMAV = <<>>
    /\ totalLent = 0
    /\ liquiditySource = "none"
    /\ result = NoResult
    /\ floorLog = 0
    /\ resolution = "none"
    /\ foldInput = <<>>
    /\ foldPos = 0
    /\ ResolverIdle
    /\ ScanIdle
    /\ TwinIdle
    /\ ApiIdle
    /\ ReportIdle
    /\ dpc = "fallback"
    /\ days \in DaysInputs
    /\ page = 1
    /\ retries = 3
    /\ attempts = 3
    /\ waits = <<RETRY_WAIT, RETRY_WAIT>>
    /\ results = <<>>
    /\ allTransactions = <<>>
    /\ primaryEnd = "retries"
    /\ currentBlockNum = 0

FallbackWindowLogged == FallbackWindowOf(TRUE)

NextScan ==
    \/ FallbackStart
    \/ FallbackWindowLogged

SpecScan == InitScan /\ [][NextScan]_vars

-----------------------------------------------------------------------------
(* Reporting twice on one ledger *)

MaxClock == 2
ReportDebts == {UNIT, 2 * UNIT + 1, 3 * UNIT}
ReportLedgers ==
    UNION {{[i \in 1..n |-> [wallet |-> i, debt |-> d[i]]] : d \in [1..n -> ReportDebts]} :
              n \in 0..2}
Tokens == {"0xtokenA", "0xtokenB"}

\* the object returned: lastUpdated is new Date()
TopLendersResult(lenders, total, pool, token, now) ==
    [lenders |-> lenders,
     totalLent |-> ToMAV(total),
     totalPoolLiquidity |-> ToMAV(pool),
     tokenAddress |-> token,
     lastUpdated |-> now]

\* from the filter to the return, at time now
ReportFrom(m, pool, token, now) ==
    LET lenders == Lenders(m)
        total == SumBalances(lenders)
    IN  TopLendersResult(LendersInMAV(lenders, total), total, pool, token, now)

InitReport ==
    /\ pc = "report"
    /\ discovered = "some"
    /\ cur = NoTx
    /\ outstandingDebts \in ReportLedgers
    /\ lendersInMAV = <<>>
    /\ totalLent = 0
    /\ liquiditySource = "none"
    /\ result = NoResult
    /\ floorLog = 0
    /\ resolution = "none"
    /\ foldInput = <<>>
    /\ foldPos = 0
    /\ ResolverIdle
    /\ ScanIdle
    /\ TwinIdle
    /\ DiscoveryIdle
    /\ ApiIdle
    /\ clock = 0
    /\ tokenAddress \in Tokens
    /\ liquidity \in {getLaunchPoolBalance(readOk, q) : readOk \in BOOLEAN, q \in LiquidityReads}
    /\ reports = <<>>

Tick ==
    /\ clock < MaxClock
    /\ clock' = clock + 1
    /\ UNCHANGED <<pipeVars, foldVars, resolverVars, discVars, scanVars, twinVars, apiVars,
                   tokenAddress, liquidity, reports>>

ReportOnce ==
    /\ Len(reports) < 2
    /\ reports' = Append(reports, ReportFrom(outstandingDebts, liquidity, tokenAddress, clock))
    /\ UNCHANGED <<pipeVars, foldVars, resolverVars, discVars, scanVars, twinVars, apiVars,
                   clock, tokenAddress, liquidity>>

NextReport ==
    \/ Tick
    \/ ReportOnce

SpecReport == InitReport /\ [][NextReport]_vars

-----------------------------------------------------------------------------
(* The POST handler of /api/lenders for one request *)

MaxRequests == 3
TIMEOUT_MESSAGE == "Request timeout after 180 seconds"
RunErrors == {"Method-based search failed: Chunked approach failed",
              "Method-based search failed: fetch failed"}
BodyErrors == {"Unexpected end of JSON input"}

NoApiResult == TopLendersResult(<<>>, 0, 0, "none", 0)

\* what getOutstandingDebtFromBlockSearch may resolve with
ApiResults ==
    {ReportFrom(m, pool, "0xtokenA", 1) : m \in ReportLedgers,
                                          pool \in {3 * UNIT, DefaultLiquidity}}

Pending == [state |-> "pending", result |-> NoApiResult, error |-> "none"]
Fulfilled(r) == [state |-> "fulfilled", result |-> r, error |-> "none"]
Rejected(e) == [state |-> "rejected", result |-> NoApiResult, error |-> e]

\* Date.toISOString()
ToISOString(t) == <<"ISO", t>>

\* serializeBigInt on a TopLendersResult: its numbers and strings are kept,
\* the Date becomes text
serializeBigInt(obj) == [obj EXCEPT !.lastUpdated = ToISOString(@)]

Response(status, r, error, details) ==
    [status |-> status, result |-> serializeBigInt(r), error |-> error, details |-> details]

InitApi ==
    /\ pc = "start"
    /\ discovered = "none"
    /\ cur = NoTx
    /\ outstandingDebts = <<>>
    /\ lendersInMAV = <<>>
    /\ totalLent = 0
    /\ liquiditySource = "none"
    /\ result = NoResult
    /\ floorLog = 0
    /\ resolution = "none"
    /\ foldInput = <<>>
    /\ foldPos = 0
    /\ ResolverIdle
    /\ ScanIdle
    /\ TwinIdle
    /\ DiscoveryIdle
    /\ ReportIdle
    /\ apiPc = "body"                   \* the timer is set, await request.json()
    /\ timer = "armed"
    /\ run = [state |-> "none", result |-> NoApiResult, error |-> "none"]
    /\ race = [state |-> "none", result |-> NoApiResult, error |-> "none"]
    /\ responses = <<>>
    /\ upstream = 0

\* request.json() settles; with a token the run is started and raced
ParseBody ==
    /\ apiPc = "body"
    /\ \/ \E e \in BodyErrors :
             /\ responses' = <<Response(500, NoApiResult, "Failed to fetch lenders data", e)>>
             /\ apiPc' = "responded"
             /\ UNCHANGED <<run, race, upstream>>
       \/ /\ responses' = <<Response(400, NoApiResult, "Token address is required", "none")>>
          /\ apiPc' = "responded"
          /\ UNCHANGED <<run, race, upstream>>
       \/ /\ run' = Pending
          /\ race' = IF timer = "fired" THEN Rejected(TIMEOUT_MESSAGE) ELSE Pending
          /\ upstream' = 1               \* the run has sent its first request
          /\ apiPc' = "racing"
          /\ UNCHANGED responses
    /\ UNCHANGED <<pipeVars, foldVars, resolverVars, discVars, scanVars, twinVars, reportVars, timer>>

\* variant: the timer's promise is not among the raced
DeadlineFiresUnraced ==
    /\ timer = "armed"
    /\ timer' = "fired"
    /\ UNCHANGED <<pipeVars, foldVars, resolverVars, discVars, scanVars, twinVars, reportVars,
                   apiPc, run, race, responses, upstream>>

\* the setTimeout callback rejects timeoutPromise
DeadlineFires ==
    /\ timer = "armed"
    /\ timer' = "fired"
    /\ race' = IF race.state = "pending" THEN Rejected(TIMEOUT_MESSAGE) ELSE race
    /\ UNCHANGED <<pipeVars, foldVars, resolverVars, discVars, scanVars, twinVars, reportVars,
                   apiPc, run, responses, upstream>>

\* the run sends its next request: an index page, a log query, a transaction
\* or receipt fetch, the liquidity read
RunRequests ==
    /\ run.state = "pending"
    /\ upstream < MaxRequests
    /\ upstream' = upstream + 1
    /\ UNCHANGED <<pipeVars, foldVars, resolverVars, discVars, scanVars, twinVars, reportVars,
                   apiPc, timer, run, race, responses>>

\* getOutstandingDebtFromBlockSearch returns or throws
RunSettles ==
    /\ run.state = "pending"
    /\ \E outcome \in {Fulfilled(r) : r \in ApiResults} \cup {Rejected(e) : e \in RunErrors} :
          /\ run' = outcome
          /\ race' = IF race.state = "pending" THEN outcome ELSE race
    /\ UNCHANGED <<pipeVars, foldVars, resolverVars, discVars, scanVars, twinVars, reportVars,
                   apiPc, timer, responses, upstream>>

\* the handler resumes after the await of the race
Respond ==
    /\ apiPc = "racing"
    /\ race.state \in {"fulfilled", "rejected"}
    /\ responses' = Append(responses,
                          IF race.state = "fulfilled"
                          THEN Response(200, race.result, "none", "none")
                          ELSE Response(500, NoApiResult, "Failed to fetch lenders data",
                                        race.error))
    /\ apiPc' = "responded"
    /\ UNCHANGED <<pipeVars, foldVars, resolverVars, discVars, scanVars, twinVars, reportVars,
                   timer, run, race, upstream>>

NextApi ==
    \/ ParseBody
    \/ DeadlineFires
    \/ RunRequests
    \/ RunSettles
    \/ Respond

SpecApi == InitApi /\ [][NextApi]_vars

-----------------------------------------------------------------------------
(* Claims *)

Max(a, b) == IF a > b THEN a ELSE b

Done == pc = "done"

Addresses(lenders) == {lenders[i].address : i \in 1..Len(lenders)}

\* C1: every ledger entry is >= 0 after any prefix of the candidates, and a
\* wallet once entered is never removed: an excess repayment leaves it at 0.
C1_FloorAndNoRemoval ==
    /\ [](\A i \in 1..Len(outstandingDebts) : outstandingDebts[i].debt >= 0)
    /\ [][Wallets(outstandingDebts) \subseteq Wallets(outstandingDebts')]_vars

\* a wallet whose repayment was floored is still in the ledger, at 0
C1_Witness ==
    /\ floorLog # 0
    /\ floorLog \in Wallets(outstandingDebts)
    /\ MapGetOrZero(outstandingDebts, floorLog) = 0
    /\ pc = "loop"

RECURSIVE RefFold(_, _, _)
\* the claim's fold: newBalance = max(0, currentBalance + delta), per wallet,
\* over the first n deltas
RefFold(deltas, n, w) ==
    IF n = 0 THEN 0
    ELSE IF deltas[n].wallet = w
         THEN Max(0, RefFold(deltas, n - 1, w) + deltas[n].amount)
         ELSE RefFold(deltas, n - 1, w)

Delta(w, a) == [wallet |-> w, amount |-> a]
ScenarioA == <<Delta(1, 100), Delta(1, -30)>>
ScenarioB == <<Delta(1, 50), Delta(1, -80)>>
ScenarioReborrow == <<Delta(1, 50), Delta(1, -80), Delta(1, 20)>>

Folded(deltas) == foldInput = deltas /\ foldPos = Len(deltas)

\* C2: the ledger is the left fold, in discovery order, of
\* max(0, currentBalance + delta) per wallet, floored after every delta; the
\* three scenarios give 70, 0 and 20.
C2_LeftFold ==
    pc = "fold" =>
        /\ \A w \in FoldWallets :
              MapGetOrZero(outstandingDebts, w) = RefFold(foldInput, foldPos, w)
        /\ Folded(ScenarioA) => MapGetOrZero(outstandingDebts, 1) = 70
        /\ Folded(ScenarioB) => MapGetOrZero(outstandingDebts, 1) = 0
        /\ Folded(ScenarioReborrow) => MapGetOrZero(outstandingDebts, 1) = 20

\* a full repayment followed by a new borrow has been folded
C2_Witness ==
    /\ Folded(ScenarioReborrow)
    /\ MapGetOrZero(outstandingDebts, 1) = 20

\* C3: the returned lenders list never holds more than 10 entries.
C3_AtMostTopN == Done => Len(result.lenders) <= TOP_N

\* C4: poolPercentage is balance / liquidity * 100 at two decimals, liquidity
\* being the totalPoolLiquidity of the same ResultSet (either rounding of the
\* last digit is accepted).
C4_PercentOfLiquidity ==
    (Done /\ result.totalPoolLiquidity > 0) =>
        \A i \in 1..Len(result.lenders) :
            LET hundredths == (result.lenders[i].balance * 10000) \div result.totalPoolLiquidity
            IN  result.lenders[i].poolPercentage \in {hundredths, hundredths + 1}

\* C5: every poolPercentage is >= 0, and is 0 whenever the liquidity is 0.
C5_PercentBound ==
    Done =>
        \A i \in 1..Len(result.lenders) :
            /\ result.lenders[i].poolPercentage >= 0
            /\ result.totalPoolLiquidity = 0 => result.lenders[i].poolPercentage = 0

\* C6: no returned lender has a balance below one whole unit, neither as
\* reported nor in the ledger.
C6_NoDustReported ==
    Done =>
        \A i \in 1..Len(result.lenders) :
            /\ result.lenders[i].balance >= ToMAV(UNIT)
            /\ MapGetOrZero(outstandingDebts, result.lenders[i].address) >= UNIT

\* the filter dropped a non-zero dust balance and kept another wallet
C6_Witness ==
    /\ Done
    /\ Len(result.lenders) >= 1
    /\ \E i \in 1..Len(outstandingDebts) :
          outstandingDebts[i].debt > 0 /\ outstandingDebts[i].debt < UNIT

\* C7: a wallet is filtered out only when its balance is below one whole unit:
\* a wallet at exactly one unit (or more) is among the returned lenders.
C7_ExactUnitReported ==
    (Done /\ discovered = "some") =>
        \A i \in 1..Len(outstandingDebts) :
            outstandingDebts[i].debt >= UNIT =>
                outstandingDebts[i].wallet \in Addresses(result.lenders)

\* position of a lender's wallet in the order of first entry into the ledger
Discovery(l) == IndexOf(outstandingDebts, l.address)

\* C8 as written: non-increasing reported balance, and lenders whose reported
\* balances are equal stand in discovery order.
C8_ReportedTiesInDiscoveryOrder ==
    Done =>
        \A i, j \in 1..Len(result.lenders) :
            i < j =>
                /\ result.lenders[i].balance >= result.lenders[j].balance
                /\ result.lenders[i].balance = result.lenders[j].balance
                      => Discovery(result.lenders[i]) < Discovery(result.lenders[j])

\* C8 amended: non-increasing reported balance and non-increasing ledger
\* balance, and lenders whose ledger balances are equal stand in discovery order.
C8_LedgerTiesInDiscoveryOrder ==
    Done =>
        \A i, j \in 1..Len(result.lenders) :
            i < j =>
                LET di == MapGetOrZero(outstandingDebts, result.lenders[i].address)
                    dj == MapGetOrZero(outstandingDebts, result.lenders[j].address)
                IN  /\ result.lenders[i].balance >= result.lenders[j].balance
                    /\ di >= dj
                    /\ di = dj => Discovery(result.lenders[i]) < Discovery(result.lenders[j])

\* three lenders returned, two of them tied in the ledger, the third larger
\* and discovered last
C8_Witness ==
    /\ Done
    /\ Len(result.lenders) = 3
    /\ result.lenders[1].address = 3
    /\ MapGetOrZero(outstandingDebts, 1) = MapGetOrZero(outstandingDebts, 2)

RECURSIVE SumReported(_)
SumReported(s) == IF s = <<>> THEN 0 ELSE Head(s).balance + SumReported(Tail(s))

RECURSIVE SumDebts(_)
SumDebts(m) == IF m = <<>> THEN 0 ELSE Head(m).debt + SumDebts(Tail(m))

\* the wallets of the ledger that are at or above one whole unit / above it
AboveDust(m) == SelectSeq(m, LAMBDA e : e.debt > UNIT)

C10_EmptyIsValid ==
    /\ (Done /\ (discovered = "empty" \/ DustFilter(outstandingDebts) = <<>>))
          => (result.lenders = <<>> /\ result.totalLent = 0)
    /\ pc = "failed" => discovered = "none"
    /\ (pc \in {"liquidityEmpty", "liquidity"}) => ENABLED (ReturnEmpty \/ ReturnResult)

\* discovery found candidates, every balance is dust, the liquidity read failed
C10_Witness ==
    /\ Done
    /\ discovered = "some"
    /\ outstandingDebts # <<>>
    /\ result.lenders = <<>>
    /\ liquiditySource = "fallback"

\* a loop iteration has just ended
IterationEnds == pc \in {"loopFirst", "loop", "events", "decode"} /\ pc' = "loop"

\* C11 as stated: a candidate whose transaction or receipt could not be
\* fetched, or for which neither path gave an amount, leaves the ledger as it was.
C11_AnyFailureSkips ==
    [][(IterationEnds /\ (resolution' = "unresolved" \/ resolution = "noReceipt"))
          => outstandingDebts' = outstandingDebts]_vars

\* C11: a candidate whose transaction could not be fetched, or for which the
\* events gave no amount and the input could not be decoded, leaves the ledger
\* as it was; the loop goes on to the next candidate and the run does not fail.
C11_UnresolvedIsSkipped ==
    /\ [][(IterationEnds /\ resolution' = "unresolved")
             => outstandingDebts' = outstandingDebts]_vars
    /\ [](pc = "loop" => ENABLED FetchTransaction)
    /\ [](pc = "failed" => discovered = "none")

\* a candidate was skipped after one was applied, and the run completed
C11_Witness ==
    /\ Done
    /\ resolution = "unresolved"
    /\ Len(result.lenders) > 0

\* C15: whether or not the liquidity read succeeds the run returns the lenders
\* and the total computed before the read; a failed read yields the default
\* pool size.
C15_LiquidityFailureRecovered ==
    /\ pc = "failed" => discovered = "none"
    /\ (Done /\ discovered = "some") =>
           /\ result.lenders = lendersInMAV
           /\ result.totalLent = ToMAV(totalLent)
    /\ (Done /\ discovered = "empty") =>
           /\ result.lenders = <<>>
           /\ result.totalLent = 0
    /\ (Done /\ liquiditySource = "fallback") =>
           result.totalPoolLiquidity = ToMAV(DefaultLiquidity)

\* a run with lenders completed on a failed liquidity read
C15_Witness ==
    /\ Done
    /\ liquiditySource = "fallback"
    /\ Len(result.lenders) > 0

Resolved == rOut # NoOutcome

\* C19: with a receipt holding transfers to or from the sender the delta is
\* received - sent, zero included; decoding is used only without a receipt or
\* without such transfers.
C19_NetOfEventsUsed ==
    Resolved =>
       /\ (rIn.receiptOk /\ (rIn.received > 0 \/ rIn.sent > 0)) =>
              /\ rOut.path = "events"
              /\ rOut.amount = rIn.received - rIn.sent
       /\ rOut.path = "decode" =>
              (~rIn.receiptOk \/ (rIn.received = 0 /\ rIn.sent = 0))

BORROW_IDS == {"0xa4b3bdfd", "0x7407572b"}
REPAY_IDS == {"0x59b34772", "0xa8b1a5b3"}

\* C20: a decoded amount is positive for the borrow selectors and negative
\* for the repay selectors, so a decoded repayment never raises the balance.
C20_DecodedSign ==
    [][(rOut'.path = "decode" /\ rOut.path = "none") =>
          /\ rIn.methodId \in BORROW_IDS => rOut'.amount >= 0
          /\ rIn.methodId \in REPAY_IDS =>
                /\ rOut'.amount <= 0
                /\ MapGetOrZero(outstandingDebts', 1) <= MapGetOrZero(outstandingDebts, 1)]_vars

PrimaryFailed == primaryEnd \in {"retries", "format"}
PrimaryExhausted == primaryEnd \in {"noTransactions", "emptyPage", "shortPage"}

\* C12: when the index strategy fails after three failed attempts on a page or
\* on a result that is not an array, on any page, the block scan is started, and
\* the candidates returned are those found by the scan alone.
C12_FallbackAlone ==
    /\ [][(~PrimaryFailed /\ PrimaryFailed') => dpc' = "fallback"]_vars
    /\ [][dpc = "fallback" => dpc' \in {"window", "returned", "threw"}]_vars
    /\ [](PrimaryFailed => dpc \in {"fallback", "window", "returned", "threw"})
    /\ []((dpc = "returned" /\ PrimaryFailed) =>
             \A i \in 1..Len(allTransactions) : allTransactions[i].via = "fallback")

\* the index strategy failed on page 2 with a candidate in hand, and the scan
\* returned a candidate of its own
C12_Witness ==
    /\ dpc = "returned"
    /\ PrimaryFailed
    /\ page = 2
    /\ Len(allTransactions) > 0

\* C13: no page is requested more than 3 times; the count restarts at every
\* page; the third failed attempt ends the index strategy with a failure and
\* no further request for the page.
C13_ThreeAttempts ==
    /\ [](attempts <= 3 /\ retries <= attempts)
    /\ [][(page' # page /\ dpc' = "primary") => (retries' = 0 /\ attempts' = 0)]_vars
    /\ [][(dpc = "primary" /\ retries' = 3) =>
              (dpc' = "fallback" /\ primaryEnd' = "retries")]_vars
    /\ [][dpc # "primary" => (attempts' <= attempts /\ page' = page)]_vars

\* three failed attempts on the second page, which ended the index strategy
C13_Witness ==
    /\ page = 2
    /\ attempts = 3
    /\ retries = 3
    /\ primaryEnd = "retries"
    /\ dpc = "fallback"

\* C14: 'No transactions found' on any attempt of any page, an empty page or
\* a page of fewer than OFFSET rows ends the index strategy normally: what was
\* accumulated, with the targets of the short page, is returned, no request
\* follows and the block scan is not started.
C14_ExhaustionEndsNormally ==
    /\ [][(~PrimaryExhausted /\ PrimaryExhausted') =>
              /\ dpc' = "returned"
              /\ allTransactions' = allTransactions \o Targets(results')]_vars
    /\ [][PrimaryExhausted => UNCHANGED <<dpc, attempts, page, allTransactions>>]_vars
    /\ [](PrimaryExhausted =>
             \A i \in 1..Len(allTransactions) : allTransactions[i].via = "primary")

\* a short page with a target, obtained on a third attempt after a full page
\* with a target
C14_Witness ==
    /\ primaryEnd = "shortPage"
    /\ attempts = 3
    /\ Len(Targets(results)) > 0
    /\ Len(allTransactions) > Len(Targets(results))

\* C18: every candidate returned by discovery, by either strategy, has a
\* block number >= head - days * blocksPerDay.
C18_InsideWindow ==
    dpc = "returned" =>
       \A i \in 1..Len(allTransactions) :
          allTransactions[i].blockNumber >= CurrentBlock - days * BlocksPerDay

TimedOut == race = Rejected(TIMEOUT_MESSAGE)

\* C16: when the deadline fires before the run has settled the one response is
\* a 500 whose details carry the timeout message; a 200 carries the result the
\* run settled with before the deadline; a result that settles later is not
\* sent; no request is answered twice.
C16_DeadlineAnswered ==
    /\ [](Len(responses) <= 1 /\ (apiPc = "responded" <=> Len(responses) = 1))
    /\ []((apiPc = "racing" /\ timer = "fired" /\ run.state = "pending") => TimedOut)
    /\ [][TimedOut => TimedOut']_vars
    /\ []((apiPc = "responded" /\ TimedOut) =>
             responses = <<Response(500, NoApiResult, "Failed to fetch lenders data",
                                    TIMEOUT_MESSAGE)>>)
    /\ [](\A i \in 1..Len(responses) :
             responses[i].status = 200 =>
                /\ ~TimedOut
                /\ run.state = "fulfilled"
                /\ responses[i].result = serializeBigInt(run.result))
    /\ []((apiPc = "racing" /\ race.state # "pending") => ENABLED Respond)
    /\ [][responses # <<>> => responses' = responses]_vars

\* the run resolved with lenders after the deadline and the request was
\* answered with the timeout error
C16_Witness ==
    /\ apiPc = "responded"
    /\ TimedOut
    /\ run.state = "fulfilled"
    /\ Len(run.result.lenders) > 0
    /\ responses[1].status = 500

\* C17: two reports from the same ledger and the same liquidity are equal in
\* every field: lenders, totalLent, totalPoolLiquidity, tokenAddress, lastUpdated.
C17_IdenticalResultSets ==
    Len(reports) = 2 => reports[1] = reports[2]

\* the three conditions of a candidate, on a row of the index
Matching(tx) ==
    /\ tx.to = ITOKEN_MANAGER_ADDRESS
    /\ tx.isError # "1"
    /\ tx.methodId \in {"0xa4b3bdfd", "0x7407572b", "0x59b34772", "0xa8b1a5b3"}

\* C22: every candidate of the index strategy was made from a row addressed
\* to the manager contract, not reverted and with a catalog selector; of the
\* last page exactly the rows meeting the three conditions were added.
C22_OnlyMatchingRows ==
    /\ [](\A i \in 1..Len(allTransactions) :
             allTransactions[i].via = "primary" => Matching(allTransactions[i].row))
    /\ [][(dpc = "primary" /\ primaryEnd' = "shortPage") =>
              Len(allTransactions') - Len(allTransactions)
                 = Cardinality({i \in 1..Len(results') : Matching(results'[i])})]_vars

\* a short page held a reverted call to the manager with a catalog selector
\* next to a matching row, and one candidate was kept
C22_Witness ==
    /\ primaryEnd = "shortPage"
    /\ Len(allTransactions) = 1
    /\ \E i \in 1..Len(results) :
          /\ results[i].isError = "1"
          /\ results[i].to = ITOKEN_MANAGER_ADDRESS
          /\ results[i].methodId \in METHOD_IDS

\* C25: within the retries of one page every wait is strictly longer than the
\* one before it, whatever the kind of failure.
C25_WaitsIncrease ==
    \A i \in 1..(Len(waits) - 1) : waits[i] < waits[i + 1]

\* C27: an amount resolved by decoding the input is the delta that the
\* transfer events give when the same amount is transferred to the sender.
C27_SameUnit ==
    (Resolved /\ rOut.path = "decode") =>
       rOut.amount = getActualMAVAmountFromEvents(TRUE, rIn.raw, 0).amount

\* C29: after the timeout has been answered the run of the request sends no
\* further upstream request, and a request answered with 400 leaves no
\* deadline timer pending.
C29_NothingLeftRunning ==
    /\ [][(apiPc = "responded" /\ TimedOut) => upstream' = upstream]_vars
    /\ []((apiPc = "responded" /\ responses[1].status = 400) => timer # "armed")


\* C23: in the block scan a failed log query or a failed transaction fetch
\* ends neither the window nor the scan: every window step moves the start
\* forward and leaves the loop only at the head, the candidates found before
\* stay, and every hash of the window that was fetched and matches is added,
\* whatever happened to the hashes before it.
C23_ScanGoesOn ==
    [][dpc = "window" =>
          /\ dpc' \in {"window", "returned"}
          /\ currentBlockNum' > currentBlockNum
          /\ dpc' = "returned" => currentBlockNum' >= CurrentBlock
          /\ Len(windows') = Len(windows) + 1
          /\ SubSeq(allTransactions', 1, Len(allTransactions)) = allTransactions
          /\ Len(allTransactions') - Len(allTransactions)
                = Cardinality({i \in 1..Len(scanLog') : scanLog'[i] = "pushed"})]_vars

C23_Witness ==
    /\ dpc = "returned"
    /\ Len(windows) = 2
    /\ windows[1].logs = "failed"
    /\ scanLog = <<"failed", "pushed">>
    /\ Len(allTransactions) = 1

\* C24: in the block scan of discovery the number of transaction bodies
\* fetched for one window never exceeds the cap, however many distinct hashes
\* the logs of the window hold.
C24_FetchesCapped == Len(scanLog) <= maxTxsPerChunk

\* C26: when the block scan returns, its windows are pairwise disjoint and
\* every block from the start block up to and including the head read at the
\* start lies in one of them.
C26_WindowsPartition ==
    (dpc = "returned" /\ primaryEnd = "retries") =>
        /\ \A i, j \in 1..Len(windows) :
              i < j => windows[i].toBlock < windows[j].fromBlock
        /\ \A b \in (CurrentBlock - days * BlocksPerDay)..CurrentBlock :
              \E i \in 1..Len(windows) :
                  windows[i].fromBlock <= b /\ b <= windows[i].toBlock

\* C28: a block scan in which upstream fetches failed is a failure: the scan
\* hands back a candidate list to the run (which answers an empty list with a
\* valid empty ResultSet) only when at least one window's log query succeeded.
C28_FailedScanIsFailure ==
    (dpc = "returned" /\ primaryEnd = "retries") =>
        \E i \in 1..Len(windows) : windows[i].logs = "ok"

\* C30: when every request is answered in the end, discovery ends (it returns
\* or throws); the index strategy asks for page 1, then 2, then 3, one page
\* further only after a page was answered, and leaves its loop with the
\* first page that is not full; the start of the scan's window grows at every
\* iteration, whether the log query succeeded or failed, and the scan leaves
\* its loop only at the head.
C30_DiscoveryEnds ==
    /\ <>(dpc \in {"returned", "threw"})
    /\ [][dpc = "primary" =>
             /\ page' \in {page, page + 1}
             /\ primaryEnd' \in {"shortPage", "emptyPage"} => dpc' = "returned"]_vars
    /\ [][dpc = "window" =>
             /\ currentBlockNum' > currentBlockNum
             /\ dpc' = "window" <=> currentBlockNum' < CurrentBlock]_vars

C30_Witness ==
    /\ dpc = "returned"
    /\ primaryEnd = "retries"
    /\ page = 2
    /\ Len(windows) = 3
    /\ Len(allTransactions) = 1

\* the ledger of an invocation that runs alone, after n candidates
RECURSIVE AloneLedger(_, _)
AloneLedger(input, n) ==
    IF n = 0 THEN <<>>
    ELSE ApplyDelta(AloneLedger(input, n - 1), input[n].wallet, input[n].amount)

\* C21: of two invocations, interleaved in any order or one after the other,
\* each returns the lenders and the total it returns when it runs alone on
\* the same upstream answers, and between its awaits its ledger holds what
\* its own candidates so far produce.
C21_RunsDoNotInterfere ==
    \A r \in 1..Len(twin) :
        /\ twin[r].state = "loop" =>
              twin[r].ledger = AloneLedger(twin[r].input, twin[r].pos)
        /\ twin[r].state = "returned" =>
              twin[r].result = RunResult(AloneLedger(twin[r].input, Len(twin[r].input)))

\* both invocations are between two awaits of their loops, on the same wallet
C21_Witness ==
    /\ Len(twin) = 2
    /\ twin[1].state = "loop" /\ twin[2].state = "loop"
    /\ Len(twin[1].input) = 2 /\ Len(twin[2].input) = 2
    /\ twin[1].pos = 1 /\ twin[2].pos = 1
    /\ twin[1].input[1].wallet = twin[2].input[1].wallet
    /\ twin[1].ledger # twin[2].ledger

====
